---- MODULE Spec2Model ----
(***************************************************************************)
(* Relative pointers of rkyv (src/rkyv/src/rel_ptr/mod.rs).                *)
(*                                                                         *)
(* The model is built for the smallest target the source compiles for, a   *)
(* 16-bit one: usize and isize are 16 bits wide, and the cfg gates of the  *)
(* source leave the offset types i8, i16, u8 and u16.  Integers keep their *)
(* width: every usize operation is taken modulo 2^PtrBits and every cast   *)
(* is modelled as the two's complement reinterpretation it is.             *)
(***************************************************************************)
EXTENDS Integers, Sequences, FiniteSets, TLC

VARIABLES
    call,    \* SpecPure: one set of arguments and the results of the pure functions
    inp,     \* per producer: the arguments of its emplace / resolve_emplace call
    build,   \* "debug" (overflow checks on) or "release" (wrapping arithmetic)
    pc,      \* per producer: where its call stands
    ret,     \* per producer: what its call returned
    trace,   \* per producer: the positions the call passed on
    buf,     \* the output buffer: cell -> byte, Uninit for a byte never written
    phase,   \* "encode" or "access"
    base,    \* the address the finalized archive is placed at
    last     \* the last accessor call and its result

vars == <<call, inp, build, pc, ret, trace, buf, phase, base, last>>

----------------------------------------------------------------------------
(* Machine integers *)

\* target_pointer_width of the modelled target
PtrBits == 16

\* how far around each boundary value the sampled positions and values reach
PosMargin == 1

\* the number of concurrent producers of SpecConc
NumProducers == 2

Pow2(n) == 2 ^ n

UsizeMax == Pow2(PtrBits) - 1
IsizeMax == Pow2(PtrBits - 1) - 1
IsizeMin == -Pow2(PtrBits - 1)

\* `x as usize` of an isize (isize::MAX as usize, isize::MIN as usize)
AsUsize(i) == i % Pow2(PtrBits)

\* `x as isize` of any integer: truncate to the pointer width, reinterpret as signed
AsIsize(x) ==
    LET u == x % Pow2(PtrBits)
    IN  IF u > IsizeMax THEN u - Pow2(PtrBits) ELSE u

\* usize::overflowing_sub
overflowing_sub(a, b) ==
    [result |-> (a - b) % Pow2(PtrBits), overflow |-> a < b]

\* Result<_, OffsetError>, and the outcome of a call that did not return
Ok(v) == [tag |-> "Ok", val |-> v]
Err(e) == [tag |-> e, val |-> 0]
None == [tag |-> "None", val |-> 0]
Panic == [tag |-> "panic", val |-> 0]

OffsetError == {"IsizeOverflow", "ExceedsStorageRange"}

----------------------------------------------------------------------------
(* signed_offset *)

\* an off-by-one in the wrapped branch: isize::MIN is rejected
signed_offset_strict(from, to) ==
    LET s == overflowing_sub(to, from)
    IN  IF (~s.overflow /\ s.result <= AsUsize(IsizeMax))
           \/ (s.overflow /\ s.result > AsUsize(IsizeMin))
        THEN Ok(AsIsize(s.result))
        ELSE Err("IsizeOverflow")

signed_offset(from, to) ==
    LET s == overflowing_sub(to, from)
    IN  IF (~s.overflow /\ s.result <= AsUsize(IsizeMax))
           \/ (s.overflow /\ s.result >= AsUsize(IsizeMin))
        THEN Ok(AsIsize(s.result))
        ELSE Err("IsizeOverflow")

----------------------------------------------------------------------------
(* The offset types: impl_offset!(i8) ... impl_offset!(u64) and their gates *)

Ty(s, b) == [signed |-> s, bits |-> b]

OffsetTypes ==
    {Ty(TRUE, 8), Ty(TRUE, 16), Ty(FALSE, 8), Ty(FALSE, 16)}
    \cup (IF PtrBits >= 32 THEN {Ty(TRUE, 32), Ty(FALSE, 32)} ELSE {})
    \cup (IF PtrBits >= 64 THEN {Ty(TRUE, 64), Ty(FALSE, 64)} ELSE {})

TyMin(ty) == IF ty.signed THEN -Pow2(ty.bits - 1) ELSE 0
TyMax(ty) == IF ty.signed THEN Pow2(ty.bits - 1) - 1 ELSE Pow2(ty.bits) - 1
TyBytes(ty) == ty.bits \div 8

\* <$ty>::try_from(isize): the value when it is in the type's range
try_from(ty, d) ==
    IF TyMin(ty) <= d /\ d <= TyMax(ty) THEN Ok(d) ELSE Err("TryFromIntError")

\* a narrowing cast in place of try_from: the distance is truncated to the type
between_truncating(ty, from, to) ==
    LET s == signed_offset(from, to)
    IN  IF s.tag # "Ok" THEN s
        ELSE LET u == s.val % Pow2(ty.bits)
             IN  Ok(IF ty.signed /\ u > TyMax(ty) THEN u - Pow2(ty.bits) ELSE u)

\* map_err applied to the whole chain: every failure becomes ExceedsStorageRange
between_one_error(ty, from, to) ==
    LET s == signed_offset(from, to)
        t == try_from(ty, s.val)
    IN  IF s.tag = "Ok" /\ t.tag = "Ok" THEN t ELSE Err("ExceedsStorageRange")

\* Offset::between
between(ty, from, to) ==
    LET s == signed_offset(from, to)
    IN  IF s.tag # "Ok" THEN s                      \* the ? operator
        ELSE LET t == try_from(ty, s.val)
             IN  IF t.tag = "Ok" THEN t ELSE Err("ExceedsStorageRange")

\* a zero extension of every type, signed ones included
to_isize_zero_extended(ty, v) == v % Pow2(ty.bits)

\* Offset::to_isize: `self as isize`
to_isize(ty, v) == AsIsize(v)

----------------------------------------------------------------------------
(* Sampled inputs *)

Near(b) == {x \in (b - 1 - PosMargin)..(b + PosMargin) : 0 <= x /\ x <= UsizeMax}

\* positions around 0, the 8-bit and the 16-bit boundaries, and the spec's scenarios
Positions ==
    Near(0) \cup Near(Pow2(7)) \cup Near(Pow2(8))
    \cup Near(Pow2(PtrBits - 1)) \cup Near(Pow2(PtrBits))
    \cup {100, 150, 400}
    \cup {Pow2(PtrBits) - 2 * (PtrBits \div 8)}   \* the last place a RelPtr fits

\* storable values of a type around its ends, zero and its sign boundary
Samples(ty) ==
    {v \in UNION {(b - 1 - PosMargin)..(b + PosMargin) :
                     b \in {TyMin(ty), 0, Pow2(ty.bits - 1), TyMax(ty) + 1}} :
        TyMin(ty) <= v /\ v <= TyMax(ty)}

----------------------------------------------------------------------------
(* Memory: the bytes of the output buffer *)

\* a byte of a MaybeUninit that was never written
Uninit == -1

\* byte i of the archived form of v: to_archived! of the default features keeps the
\* target's byte order, least significant byte first here
ByteOf(ty, v, i) == ((v % Pow2(ty.bits)) \div Pow2(8 * i)) % 256

\* a store that always writes a full usize, whatever the offset type
Store_usize_wide(b, addr, ty, v) ==
    [c \in DOMAIN b |->
        IF addr <= c /\ c < addr + (PtrBits \div 8)
        THEN ByteOf(Ty(ty.signed, PtrBits), v, c - addr) ELSE b[c]]

\* ptr::addr_of_mut!(..).write(to_archived!(v)): the bytes of v at addr
Store(b, addr, ty, v) ==
    [c \in DOMAIN b |->
        IF addr <= c /\ c < addr + TyBytes(ty) THEN ByteOf(ty, v, c - addr) ELSE b[c]]

RECURSIVE LoadUnsigned(_, _, _)
LoadUnsigned(b, addr, n) ==
    IF n = 0 THEN 0 ELSE b[addr] + 256 * LoadUnsigned(b, addr + 1, n - 1)

\* reading a field of type ty back from the bytes at addr
Load(b, addr, ty) ==
    LET u == LoadUnsigned(b, addr, TyBytes(ty))
    IN  IF ty.signed /\ u > TyMax(ty) THEN u - Pow2(ty.bits) ELSE u

\* `a + b` on usize: a panic with overflow checks, a wrapped sum without
UsizeAdd(a, b, bld) ==
    IF a + b > UsizeMax
    THEN (IF bld = "debug" THEN Panic ELSE Ok((a + b) % Pow2(PtrBits)))
    ELSE Ok(a + b)

\* pointer::offset on a *const u8 (wrapping, as the hardware adds)
PtrOffset(addr, d) == (addr + d) % Pow2(PtrBits)

----------------------------------------------------------------------------
(* The layout of RelPtr<T, O> for an unsized T: raw_ptr and metadata *)

\* ArchivedMetadata of a slice: the archived element count, a usize
MetaTy == Ty(FALSE, PtrBits)
MetaBytes == TyBytes(MetaTy)

RoundUp(n, a) == ((n + a - 1) \div a) * a

\* out_field!(out.raw_ptr).0
RawFieldPos(i) == IF i.layout = "raw_first" THEN 0 ELSE MetaBytes

\* out_field!(out.metadata).0
MetaFieldPos(i) == IF i.layout = "raw_first" THEN RoundUp(TyBytes(i.ty), MetaBytes) ELSE 0

\* size_of::<Self>() of the pointer written
ObjSize(i) ==
    IF i.kind = "raw" THEN TyBytes(i.ty)
    ELSE IF i.layout = "raw_first" THEN MetaFieldPos(i) + MetaBytes
    ELSE RoundUp(MetaBytes + TyBytes(i.ty), MetaBytes)

\* the bytes of `out`
Range(i) == i.out..(i.out + ObjSize(i) - 1)

\* ArchiveUnsized::resolve_metadata of a slice: the element count into `out`
resolve_metadata(b, len, pos, outAddr) == Store(b, outAddr, MetaTy, len)

\* ArchivePointee::pointer_metadata of a slice: the element count as a usize
pointer_metadata(m) == m

----------------------------------------------------------------------------
(* RawRelPtr::emplace and RelPtr::resolve_emplace *)

\* the offset is stored before the result of between is looked at
RawRelPtr_emplace_unchecked(b, ty, from, to, outAddr) ==
    LET o == between(ty, from, to)
    IN  [ret |-> IF o.tag = "Ok" THEN Ok(0) ELSE o,
         mem |-> Store(b, outAddr, ty, AsIsize(overflowing_sub(to, from).result))]

\* the error of between is unwrapped instead of returned
RawRelPtr_emplace_unwrap(b, ty, from, to, outAddr) ==
    LET o == between(ty, from, to)
    IN  IF o.tag # "Ok" THEN [ret |-> Panic, mem |-> b]
        ELSE [ret |-> Ok(0), mem |-> Store(b, outAddr, ty, o.val)]

\* the offset is stored through a usize-wide write
RawRelPtr_emplace_wide(b, ty, from, to, outAddr) ==
    LET o == between(ty, from, to)
    IN  IF o.tag # "Ok" THEN [ret |-> o, mem |-> b]
        ELSE [ret |-> Ok(0), mem |-> Store_usize_wide(b, outAddr, ty, o.val)]

\* RawRelPtr::emplace(from, to, out), out at address outAddr of the buffer
RawRelPtr_emplace(b, ty, from, to, outAddr) ==
    LET o == between(ty, from, to)
    IN  IF o.tag # "Ok" THEN [ret |-> o, mem |-> b]        \* the ? operator
        ELSE [ret |-> Ok(0), mem |-> Store(b, outAddr, ty, o.val)]

\* the position of `out` is passed on without the field's sub-position
FieldFrom_no_fp(from, fp, bld) == Ok(from)

\* `from + fp` of resolve_emplace
FieldFrom(from, fp, bld) == UsizeAdd(from, fp, bld)

----------------------------------------------------------------------------
(* The accessors.  Each returns its result and the memory it leaves: the   *)
(* &mut self ones could write, and do not.  self is the address of the     *)
(* pointer in the placed archive; the archive's byte at address a is       *)
(* b[a - x] for an archive placed at x.                                    *)

Res(v, s, b) == [val |-> v, shape |-> s, mem |-> b]

\* RawRelPtr::base: (self as *const Self).cast::<u8>()
RawRelPtr_base(b, x, self, ty) == Res(self, 0, b)

\* RawRelPtr::base_mut
RawRelPtr_base_mut(b, x, self, ty) == Res(self, 0, b)

\* an offset accessor that clears the field it read
RawRelPtr_offset_taking(b, x, self, ty) ==
    Res(to_isize(ty, Load(b, self - x, ty)), 0, Store(b, self - x, ty, 0))

\* RawRelPtr::offset: self.offset.to_isize()
RawRelPtr_offset(b, x, self, ty) == Res(to_isize(ty, Load(b, self - x, ty)), 0, b)

\* the offset is added to the archive's base instead of the pointer's own address
RawRelPtr_as_ptr_from_start(b, x, self, ty) ==
    Res(PtrOffset(x, RawRelPtr_offset(b, x, self, ty).val), 0, b)

\* RawRelPtr::as_ptr: self.base().offset(self.offset())
RawRelPtr_as_ptr(b, x, self, ty) ==
    Res(PtrOffset(RawRelPtr_base(b, x, self, ty).val,
                  RawRelPtr_offset(b, x, self, ty).val), 0, b)

\* RawRelPtr::as_mut_ptr: self.base_mut().offset(self.offset())
RawRelPtr_as_mut_ptr(b, x, self, ty) ==
    Res(PtrOffset(RawRelPtr_base_mut(b, x, self, ty).val,
                  RawRelPtr_offset(b, x, self, ty).val), 0, b)

\* RelPtr::base, base_mut, offset: those of the raw_ptr field
RelPtr_base(b, x, self, i) == RawRelPtr_base(b, x, self + RawFieldPos(i), i.ty)
RelPtr_base_mut(b, x, self, i) == RawRelPtr_base_mut(b, x, self + RawFieldPos(i), i.ty)
RelPtr_offset(b, x, self, i) == RawRelPtr_offset(b, x, self + RawFieldPos(i), i.ty)

\* RelPtr::metadata: &self.metadata
RelPtr_metadata(b, x, self, i) ==
    Res(0, Load(b, self + MetaFieldPos(i) - x, MetaTy), b)

\* RelPtr::as_ptr: from_raw_parts(self.raw_ptr.as_ptr(), T::pointer_metadata(&self.metadata))
RelPtr_as_ptr(b, x, self, i) ==
    Res(RawRelPtr_as_ptr(b, x, self + RawFieldPos(i), i.ty).val,
        pointer_metadata(RelPtr_metadata(b, x, self, i).shape), b)

\* RelPtr::as_mut_ptr
RelPtr_as_mut_ptr(b, x, self, i) ==
    Res(RawRelPtr_as_mut_ptr(b, x, self + RawFieldPos(i), i.ty).val,
        pointer_metadata(RelPtr_metadata(b, x, self, i).shape), b)

----------------------------------------------------------------------------
(* States *)

Builds == {"debug", "release"}
Layouts == {"raw_first", "meta_first"}
Lens == {3, 258}

Input(f, t, y, k, l, n, o) ==
    [from |-> f, to |-> t, ty |-> y, kind |-> k, layout |-> l, len |-> n, out |-> o]

NoCall ==
    [from |-> 0, to |-> 0, ty |-> Ty(TRUE, 8),
     so |-> None, bt |-> None, rt |-> None, wv |-> 0, wd |-> None]

NoTrace == [rawAt |-> None, metaAt |-> None]
NoLast == [p |-> 0, op |-> "none", val |-> 0, shape |-> 0]

Procs == DOMAIN inp

\* the cells of the buffer: the bytes of every `out`, and the byte after each
Cells(in) ==
    UNION {{c \in (in[p].out)..(in[p].out + ObjSize(in[p])) : c <= UsizeMax} : p \in DOMAIN in}

\* where `out` lies for a call with position `from`: at `from`, as the safety
\* contract asks, unless no object of that size fits there
OutAt(f, size) == IF f + size - 1 <= UsizeMax THEN f ELSE 0

InitCommon ==
    /\ pc = [p \in DOMAIN inp |-> "start"]
    /\ ret = [p \in DOMAIN inp |-> None]
    /\ trace = [p \in DOMAIN inp |-> NoTrace]
    /\ buf = [c \in Cells(inp) |-> Uninit]
    /\ phase = "encode"
    /\ base = 0
    /\ last = NoLast

\* one pointer, positions over the whole unsigned range
Init ==
    /\ call = NoCall
    /\ \E f \in Positions, t \in Positions, y \in OffsetTypes :
          \/ /\ inp = <<Input(f, t, y, "raw", "raw_first", 0, OutAt(f, TyBytes(y)))>>
             /\ build = "release"
          \/ /\ \E l \in Layouts, n \in Lens :
                   LET i == Input(f, t, y, "rel", l, n, 0)
                   IN  inp = <<[i EXCEPT !.out = OutAt(f, ObjSize(i))]>>
             /\ build \in Builds
    /\ InitCommon

----------------------------------------------------------------------------
(* The encode phase *)

Finished(p) == pc[p] \in {"done", "failed", "panicked"}

\* RawRelPtr::emplace called by producer p
Emplace(p) ==
    /\ phase = "encode" /\ inp[p].kind = "raw" /\ pc[p] = "start"
    /\ LET i == inp[p]
           r == RawRelPtr_emplace(buf, i.ty, i.from, i.to, i.out)
       IN  /\ buf' = r.mem
           /\ ret' = [ret EXCEPT ![p] = r.ret]
           /\ pc' = [pc EXCEPT ![p] = IF r.ret.tag = "Ok" THEN "done" ELSE "failed"]
           /\ trace' = [trace EXCEPT ![p].rawAt = Ok(i.from)]
    /\ UNCHANGED <<call, inp, build, phase, base, last>>

\* RelPtr::resolve_emplace, up to the write of the raw_ptr field
ResolveEmplaceRaw(p) ==
    /\ phase = "encode" /\ inp[p].kind = "rel" /\ pc[p] = "start"
    /\ LET i == inp[p]
           a == FieldFrom(i.from, RawFieldPos(i), build)
           r == RawRelPtr_emplace(buf, i.ty, a.val, i.to, i.out + RawFieldPos(i))
       IN  IF a.tag = "panic"
           THEN /\ pc' = [pc EXCEPT ![p] = "panicked"]
                /\ ret' = [ret EXCEPT ![p] = Panic]
                /\ UNCHANGED <<buf, trace>>
           ELSE /\ buf' = r.mem
                /\ trace' = [trace EXCEPT ![p].rawAt = a]
                /\ IF r.ret.tag = "Ok"
                   THEN /\ pc' = [pc EXCEPT ![p] = "raw_written"]
                        /\ ret' = ret
                   ELSE /\ pc' = [pc EXCEPT ![p] = IF r.ret.tag = "panic" THEN "panicked" ELSE "failed"]
                        /\ ret' = [ret EXCEPT ![p] = r.ret]
    /\ UNCHANGED <<call, inp, build, phase, base, last>>

\* RelPtr::resolve_emplace, from the metadata field on
ResolveEmplaceMetadata(p) ==
    /\ phase = "encode" /\ inp[p].kind = "rel" /\ pc[p] = "raw_written"
    /\ LET i == inp[p]
           a == FieldFrom(i.from, MetaFieldPos(i), build)
       IN  IF a.tag = "panic"
           THEN /\ pc' = [pc EXCEPT ![p] = "panicked"]
                /\ ret' = [ret EXCEPT ![p] = Panic]
                /\ UNCHANGED <<buf, trace>>
           ELSE /\ buf' = resolve_metadata(buf, i.len, a.val, i.out + MetaFieldPos(i))
                /\ trace' = [trace EXCEPT ![p].metaAt = a]
                /\ pc' = [pc EXCEPT ![p] = "done"]
                /\ ret' = [ret EXCEPT ![p] = Ok(0)]
    /\ UNCHANGED <<call, inp, build, phase, base, last>>

\* RelPtr::resolve_emplace as one call: the result and the memory it leaves
RelPtr_resolve_emplace(b, i, bld) ==
    LET a == FieldFrom(i.from, RawFieldPos(i), bld)
        r == RawRelPtr_emplace(b, i.ty, a.val, i.to, i.out + RawFieldPos(i))
        m == FieldFrom(i.from, MetaFieldPos(i), bld)
    IN  IF a.tag = "panic" THEN [ret |-> Panic, mem |-> b]
        ELSE IF r.ret.tag # "Ok" THEN r                       \* the ? operator
        ELSE IF m.tag = "panic" THEN [ret |-> Panic, mem |-> r.mem]
        ELSE [ret |-> Ok(0),
              mem |-> resolve_metadata(r.mem, i.len, m.val, i.out + MetaFieldPos(i))]

\* the call of one producer, run to its end on memory b
WholeCall(b, i, bld) ==
    IF i.kind = "raw" THEN RawRelPtr_emplace(b, i.ty, i.from, i.to, i.out)
    ELSE RelPtr_resolve_emplace(b, i, bld)

----------------------------------------------------------------------------
(* The access phase *)

BaseChoices == {0, 1, Pow2(8), Pow2(PtrBits - 1)}

\* the addresses the archive can be placed at: every byte of it has an address
Bases == {x \in BaseChoices : \A c \in DOMAIN buf : x + c <= UsizeMax}

\* the buffer is finalized and placed at a base address
Finalize ==
    /\ phase = "encode"
    /\ \A p \in Procs : Finished(p)
    /\ \E p \in Procs : pc[p] = "done"
    /\ \E x \in Bases : base' = x
    /\ phase' = "access"
    /\ UNCHANGED <<call, inp, build, pc, ret, trace, buf, last>>

\* the archive is copied, byte for byte, to another base address
Relocate ==
    /\ phase = "access"
    /\ \E x \in Bases \ {base} : base' = x
    /\ last' = NoLast
    /\ UNCHANGED <<call, inp, build, pc, ret, trace, buf, phase>>

Access(p, op, r) ==
    /\ phase = "access" /\ pc[p] = "done"
    /\ last' = [p |-> p, op |-> op, val |-> r.val, shape |-> r.shape]
    /\ buf' = r.mem
    /\ UNCHANGED <<call, inp, build, pc, ret, trace, phase, base>>

IsRaw(p) == inp[p].kind = "raw"

\* the accessor `op` of pointer p, called on memory b of an archive placed at x
DoAccess(b, x, p, op) ==
    LET i == inp[p]
        self == x + i.out
    IN  CASE op = "base" ->
               IF IsRaw(p) THEN RawRelPtr_base(b, x, self, i.ty) ELSE RelPtr_base(b, x, self, i)
          [] op = "base_mut" ->
               IF IsRaw(p) THEN RawRelPtr_base_mut(b, x, self, i.ty)
               ELSE RelPtr_base_mut(b, x, self, i)
          [] op = "offset" ->
               IF IsRaw(p) THEN RawRelPtr_offset(b, x, self, i.ty) ELSE RelPtr_offset(b, x, self, i)
          [] op = "as_ptr" ->
               IF IsRaw(p) THEN RawRelPtr_as_ptr(b, x, self, i.ty) ELSE RelPtr_as_ptr(b, x, self, i)
          [] op = "as_mut_ptr" ->
               IF IsRaw(p) THEN RawRelPtr_as_mut_ptr(b, x, self, i.ty)
               ELSE RelPtr_as_mut_ptr(b, x, self, i)
          [] op = "metadata" -> RelPtr_metadata(b, x, self, i)

Base(p) == Access(p, "base", DoAccess(buf, base, p, "base"))

BaseMut(p) == Access(p, "base_mut", DoAccess(buf, base, p, "base_mut"))

Offset(p) == Access(p, "offset", DoAccess(buf, base, p, "offset"))

AsPtr(p) == Access(p, "as_ptr", DoAccess(buf, base, p, "as_ptr"))

AsMutPtr(p) == Access(p, "as_mut_ptr", DoAccess(buf, base, p, "as_mut_ptr"))

Metadata(p) == ~IsRaw(p) /\ Access(p, "metadata", DoAccess(buf, base, p, "metadata"))

Next ==
    \/ \E p \in Procs : Emplace(p)
    \/ \E p \in Procs : ResolveEmplaceRaw(p)
    \/ \E p \in Procs : ResolveEmplaceMetadata(p)
    \/ Finalize
    \/ Relocate
    \/ \E p \in Procs : Base(p)
    \/ \E p \in Procs : BaseMut(p)
    \/ \E p \in Procs : Offset(p)
    \/ \E p \in Procs : AsPtr(p)
    \/ \E p \in Procs : AsMutPtr(p)
    \/ \E p \in Procs : Metadata(p)

Spec == Init /\ [][Next]_vars

----------------------------------------------------------------------------
(* SpecPure: signed_offset, Offset::between and Offset::to_isize applied to *)
(* arguments drawn from the sampled positions, types and values            *)

InitPure ==
    /\ \E f \in Positions, t \in Positions, y \in OffsetTypes :
          call = [NoCall EXCEPT !.from = f, !.to = t, !.ty = y]
    /\ inp = <<>>
    /\ build = "release"
    /\ InitCommon

PureFrame == UNCHANGED <<inp, build, pc, ret, trace, buf, phase, base, last>>

CallSignedOffset ==
    /\ call.so = None
    /\ call' = [call EXCEPT !.so = signed_offset(call.from, call.to)]
    /\ PureFrame

CallBetween ==
    /\ call.bt = None
    /\ call' = [call EXCEPT !.bt = between(call.ty, call.from, call.to)]
    /\ PureFrame

\* to_isize of the offset that between returned
CallToIsizeOfBetween ==
    /\ call.bt.tag = "Ok" /\ call.rt = None
    /\ call' = [call EXCEPT !.rt = Ok(to_isize(call.ty, call.bt.val))]
    /\ PureFrame

\* to_isize of any stored value of the type
CallToIsize ==
    /\ call.wd = None
    /\ \E v \in Samples(call.ty) :
          call' = [call EXCEPT !.wv = v, !.wd = Ok(to_isize(call.ty, v))]
    /\ PureFrame

NextPure ==
    \/ CallSignedOffset
    \/ CallBetween
    \/ CallToIsizeOfBetween
    \/ CallToIsize

SpecPure == InitPure /\ [][NextPure]_vars

----------------------------------------------------------------------------
(* SpecConc: several producers, each emplacing into a range of its own of  *)
(* one shared buffer                                                       *)

Producers == 1..NumProducers

ConcChoices ==
    {Input(0, 0, y, "raw", "raw_first", 0, 0) : y \in OffsetTypes}
    \cup {Input(0, 0, y, "rel", l, 0, 0) : y \in OffsetTypes, l \in Layouts}

\* the ranges are laid out one after the other: the position of the p-th `out`
RECURSIVE OutPos(_, _)
OutPos(ch, p) == IF p = 1 THEN 0 ELSE OutPos(ch, p - 1) + ObjSize(ch[p - 1])

InitConc ==
    /\ call = NoCall
    /\ \E ch \in [Producers -> ConcChoices] :
          inp = [p \in Producers |->
                    [ch[p] EXCEPT !.from = OutPos(ch, p), !.out = OutPos(ch, p),
                                  !.to = 100 * p, !.len = 257 + p]]
    /\ build = "release"
    /\ InitCommon

SpecConc == InitConc /\ [][Next]_vars

\* the orders in which the producers' calls can be run one after the other
Orders == {o \in [Producers -> Producers] : \A p, q \in Producers : o[p] = o[q] => p = q}

\* the buffer after the calls were run whole, one after the other, in order o
RECURSIVE Sequential(_, _, _)
Sequential(b, o, n) ==
    IF n = 0 THEN b
    ELSE WholeCall(Sequential(b, o, n - 1), inp[o[n]], build).mem

----------------------------------------------------------------------------
(* Claims about the pure functions, checked under SpecPure *)

Fits(d) == IsizeMin <= d /\ d <= IsizeMax

\* C1: signed_offset(from, to) is Ok(to - from) exactly when the mathematical
\* difference lies in [isize::MIN, isize::MAX], and then from + d = to; otherwise
\* it is Err(IsizeOverflow), never a wrapped value.  With M = isize::MAX:
\* (0, M) -> Ok(M), (M, 0) -> Ok(-M), (M+1, 0) -> Ok(-M-1), and (0, M+1),
\* (0, M+2), (M+2, 0) -> Err(IsizeOverflow).
C1_SignedOffsetExact ==
    call.so # None =>
        LET d == call.to - call.from
            at(f, t) == call.from = f /\ call.to = t
        IN  /\ Fits(d) => call.so = Ok(d) /\ call.from + call.so.val = call.to
            /\ ~Fits(d) => call.so = Err("IsizeOverflow")
            /\ at(0, IsizeMax) => call.so = Ok(IsizeMax)
            /\ at(IsizeMax, 0) => call.so = Ok(-IsizeMax)
            /\ at(IsizeMax + 1, 0) => call.so = Ok(-IsizeMax - 1)
            /\ at(0, IsizeMax + 1) => call.so = Err("IsizeOverflow")
            /\ at(0, IsizeMax + 2) => call.so = Err("IsizeOverflow")
            /\ at(IsizeMax + 2, 0) => call.so = Err("IsizeOverflow")

C1_Witness ==
    call.from = IsizeMax + 1 /\ call.to = 0 /\ call.so = Ok(IsizeMin)

\* C2: Offset::between(from, to) of a width with range [Wmin, Wmax] is Ok(to - from)
\* iff the difference fits isize and lies in [Wmin, Wmax]; Err(ExceedsStorageRange)
\* iff it fits isize and lies outside [Wmin, Wmax] (every to < from of an unsigned
\* width); Err(IsizeOverflow) iff signed_offset fails, whatever the width; exactly
\* one of the three.
C2_BetweenOutcomes ==
    call.bt # None =>
        LET d == call.to - call.from
            inW == TyMin(call.ty) <= d /\ d <= TyMax(call.ty)
        IN  /\ call.bt.tag \in {"Ok"} \cup OffsetError
            /\ call.bt.tag = "Ok" <=> (Fits(d) /\ inW)
            /\ call.bt.tag = "Ok" => call.bt.val = d
            /\ call.bt.tag = "ExceedsStorageRange" <=> (Fits(d) /\ ~inW)
            /\ call.bt.tag = "IsizeOverflow" <=> ~Fits(d)
            /\ (~call.ty.signed /\ call.to < call.from /\ Fits(d))
                  => call.bt = Err("ExceedsStorageRange")
            /\ call.so # None => (call.so.tag = "Ok" <=> call.bt.tag # "IsizeOverflow")

C2_Witness ==
    /\ call.from = 100 /\ call.to = 400 /\ call.ty = Ty(TRUE, 8)
    /\ call.bt = Err("ExceedsStorageRange")

\* C4 as stated: to_isize(v) is the same integer as v for every storable value v of
\* every offset type, an unsigned type of the machine's width included.
C4_WideningLossless ==
    call.wd # None => call.wd.val = call.wv

\* C4 as amended: to_isize(v) is the same integer as v for every stored value up to
\* isize::MAX (every value of a signed type and of an unsigned type narrower than
\* the machine); a value above isize::MAX, which only the unsigned type of the
\* machine's width holds, comes back as v - 2^PtrBits.
C4_WideningUpToIsizeMax ==
    call.wd # None =>
        /\ call.wv <= IsizeMax => call.wd.val = call.wv
        /\ call.wv > IsizeMax =>
              /\ ~call.ty.signed /\ call.ty.bits = PtrBits
              /\ call.wd.val = call.wv - Pow2(PtrBits)

C4_Witness ==
    /\ call.ty = Ty(FALSE, PtrBits) /\ call.wv = IsizeMax + 1
    /\ call.wd = Ok(IsizeMin)

\* C5: whenever between(from, to) = Ok(v), to_isize(v) is the true distance
\* to - from, which is also what signed_offset(from, to) returns.
C5_BetweenToIsizeRoundTrip ==
    call.rt # None =>
        /\ call.bt.tag = "Ok"
        /\ call.rt.val = call.to - call.from
        /\ call.so # None => call.so = Ok(call.rt.val)

C5_Witness ==
    /\ call.from = Pow2(7) /\ call.to = 0 /\ call.ty = Ty(TRUE, 8)
    /\ call.rt = Ok(-Pow2(7)) /\ call.so = Ok(-Pow2(7))

----------------------------------------------------------------------------
(* Claims about one pointer, checked under Spec *)

\* the safety contract of emplace: `out` is at position `from` of the archive
OutAtFrom(p) == inp[p].out = inp[p].from

\* the referent, too, has an address in the archive placed at base
ReferentPlaced(p) == base + inp[p].to <= UsizeMax

\* the bytes of the raw_ptr field and of the metadata field of p's `out`
RawField(p) ==
    LET a == inp[p].out + (IF IsRaw(p) THEN 0 ELSE RawFieldPos(inp[p]))
    IN  a..(a + TyBytes(inp[p].ty) - 1)
MetaField(p) ==
    IF IsRaw(p) THEN {}
    ELSE (inp[p].out + MetaFieldPos(inp[p]))..(inp[p].out + MetaFieldPos(inp[p]) + MetaBytes - 1)

\* C3: position independence.  After RawRelPtr::emplace(from, to, out) returned Ok
\* with out at position from, for every base the archive is placed at or moved to:
\* base() is base + from, offset() is to - from, as_ptr() and as_mut_ptr() are
\* base + to.
C3_PositionIndependence ==
    \A p \in Procs :
        (phase = "access" /\ last.p = p /\ IsRaw(p) /\ OutAtFrom(p) /\ ReferentPlaced(p)) =>
            /\ last.op \in {"base", "base_mut"} => last.val = base + inp[p].from
            /\ last.op = "offset" => last.val = inp[p].to - inp[p].from
            /\ last.op \in {"as_ptr", "as_mut_ptr"} => last.val = base + inp[p].to

C3_Witness ==
    /\ phase = "access" /\ base = Pow2(8)
    /\ inp[1].kind = "raw" /\ inp[1].ty = Ty(TRUE, 8)
    /\ inp[1].from = 100 /\ inp[1].to = 150 /\ inp[1].out = 100
    /\ last.op = "as_ptr" /\ last.val = Pow2(8) + 150

\* C6: after RelPtr::resolve_emplace returned Ok with out at position from, for
\* every base and wherever the raw_ptr field lies in RelPtr: metadata() is the
\* metadata of the value, as_ptr() and as_mut_ptr() have the address base + to and
\* the shape pointer_metadata(metadata()); base() is base + from + fp and offset()
\* is to - (from + fp).
C6_TypedRoundTrip ==
    \A p \in Procs :
        (phase = "access" /\ last.p = p /\ ~IsRaw(p) /\ OutAtFrom(p) /\ ReferentPlaced(p)) =>
            LET fp == RawFieldPos(inp[p])
            IN  /\ last.op = "metadata" => last.shape = inp[p].len
                /\ last.op \in {"as_ptr", "as_mut_ptr"} =>
                      /\ last.val = base + inp[p].to
                      /\ last.shape = pointer_metadata(inp[p].len)
                /\ last.op \in {"base", "base_mut"} => last.val = base + inp[p].from + fp
                /\ last.op = "offset" => last.val = inp[p].to - (inp[p].from + fp)

C6_Witness ==
    /\ phase = "access" /\ base = Pow2(8)
    /\ inp[1].kind = "rel" /\ inp[1].layout = "meta_first" /\ inp[1].ty = Ty(TRUE, 8)
    /\ inp[1].from = 100 /\ inp[1].to = 150 /\ inp[1].out = 100 /\ inp[1].len = 258
    /\ last.op = "as_ptr" /\ last.val = Pow2(8) + 150 /\ last.shape = 258

\* the positions a call passed on are the exact sums, not wrapped ones
ExactPositions(p) ==
    /\ trace[p].rawAt # None =>
          trace[p].rawAt.val = inp[p].from + (IF IsRaw(p) THEN 0 ELSE RawFieldPos(inp[p]))
    /\ trace[p].metaAt # None => trace[p].metaAt.val = inp[p].from + MetaFieldPos(inp[p])

TypedOutcome(p) ==
    /\ pc[p] # "panicked"
    /\ ret[p].tag \in {"None", "Ok"} \cup OffsetError
    /\ Finished(p) => ret[p].tag \in {"Ok"} \cup OffsetError
    /\ ExactPositions(p)

\* C7 as stated: for every from, to and width, emplace and resolve_emplace return
\* Ok, Err(IsizeOverflow) or Err(ExceedsStorageRange), never abort and never use a
\* wrapped position, also when from plus a field's sub-position exceeds usize.
C7_AlwaysTypedResult ==
    \A p \in Procs : TypedOutcome(p)

\* the sums from + fp of resolve_emplace stay within usize
FieldsInRange(p) ==
    IsRaw(p) \/ inp[p].from + MetaBytes <= UsizeMax

\* C7 as amended: emplace always returns one of the three typed results, and so
\* does resolve_emplace whenever from plus the sub-position of each field stays
\* within usize; a call that reaches a sum that overflows panics in a build with
\* overflow checks and passes the wrapped position on in a build without.
C7_TypedResultInRange ==
    \A p \in Procs :
        /\ FieldsInRange(p) => TypedOutcome(p)
        /\ ret[p].tag \in {"None", "Ok", "panic"} \cup OffsetError
        /\ pc[p] = "panicked" <=> ret[p] = Panic
        /\ pc[p] = "panicked" => build = "debug"
        /\ ~ExactPositions(p) => build = "release"

C7_Witness ==
    /\ inp[1].kind = "rel" /\ inp[1].from = UsizeMax + 1 - 2 * MetaBytes
    /\ inp[1].out = inp[1].from /\ inp[1].to = 0 /\ inp[1].ty = Ty(TRUE, 16)
    /\ pc[1] = "failed" /\ ret[1] = Err("IsizeOverflow")

\* C9: a failed emplacement writes nothing.  When between fails, emplace returns
\* that error with out as it was, and resolve_emplace returns it with neither
\* field written and resolve_metadata not invoked; when it succeeds, the offset
\* field holds exactly between(from, to), and resolve_emplace writes the address
\* component first and the metadata second.
C9_FailedEmplaceWritesNothing ==
    \A p \in Procs :
        LET i == inp[p]
            o == between(i.ty, trace[p].rawAt.val, i.to)
        IN  /\ pc[p] = "failed" =>
                  /\ o.tag \in OffsetError /\ ret[p] = o
                  /\ \A c \in Range(i) : buf[c] = Uninit
                  /\ trace[p].metaAt = None
            /\ pc[p] \in {"raw_written", "done"} =>
                  /\ o.tag = "Ok"
                  /\ Load(buf, CHOOSE c \in RawField(p) : \A e \in RawField(p) : c <= e, i.ty)
                        = o.val
            /\ pc[p] = "raw_written" =>
                  /\ \A c \in MetaField(p) : buf[c] = Uninit
                  /\ trace[p].metaAt = None /\ ret[p] = None
            /\ pc[p] = "done" =>
                  /\ ret[p] = Ok(0)
                  /\ \A c \in MetaField(p) : buf[c] # Uninit
                  /\ ~IsRaw(p) => trace[p].metaAt # None /\ trace[p].rawAt # None

C9_Witness ==
    /\ inp[1].kind = "rel" /\ inp[1].from = 100 /\ inp[1].to = 400
    /\ inp[1].ty = Ty(TRUE, 8) /\ pc[1] = "failed"
    /\ ret[1] = Err("ExceedsStorageRange")
    /\ \A c \in DOMAIN buf : buf[c] = Uninit

\* C10: the accessors are pure reads.  In the access phase no call of base,
\* base_mut, offset, metadata, as_ptr or as_mut_ptr changes a byte of the buffer,
\* so the stored offset and metadata stay what emplacement wrote, and a call
\* repeated on the archive where it lies returns what it returned before.
C10_AccessIsPureRead ==
    [][phase = "access" =>
          /\ buf' = buf
          /\ (last.op # "none" /\ last'.op = last.op /\ last'.p = last.p /\ base' = base)
                => last' = last]_vars

C10_Witness ==
    /\ phase = "access" /\ last.op = "as_mut_ptr" /\ last.p = 1
    /\ inp[1].kind = "rel" /\ inp[1].from = 100 /\ inp[1].to = 150
    /\ inp[1].ty = Ty(FALSE, 8) /\ inp[1].layout = "raw_first" /\ inp[1].len = 258
    /\ buf[100] = 50 /\ Load(buf, 102, MetaTy) = 258

----------------------------------------------------------------------------
(* The claim about concurrent producers, checked under SpecConc *)

\* the buffer before any producer wrote
Blank == [c \in DOMAIN buf |-> Uninit]

\* C8: producers emplacing into pairwise disjoint ranges of one buffer.  No step of
\* a producer changes a byte outside its own range; once all have finished, the
\* buffer and every result are those of running the calls whole, one after the
\* other, in any order; and every pointer read back afterwards gives what it gives
\* on that sequentially built buffer.
C8_DisjointConcurrentEmplace ==
    /\ []((phase = "encode" /\ \A p \in Procs : Finished(p)) =>
            \A o \in Orders :
                /\ buf = Sequential(Blank, o, NumProducers)
                /\ \A n \in Producers :
                      ret[o[n]] = WholeCall(Sequential(Blank, o, n - 1), inp[o[n]], build).ret)
    /\ []((phase = "access" /\ last.op # "none") =>
            LET id == [p \in Producers |-> p]
                r == DoAccess(Sequential(Blank, id, NumProducers), base, last.p, last.op)
            IN  last.val = r.val /\ last.shape = r.shape)
    /\ [][\A p \in Procs :
             pc'[p] # pc[p] => \A c \in DOMAIN buf \ Range(inp[p]) : buf'[c] = buf[c]]_vars

C8_Witness ==
    /\ phase = "access" /\ \A p \in Procs : pc[p] = "done"
    /\ inp[1].kind = "raw" /\ inp[1].ty = Ty(TRUE, 8) /\ inp[1].out = 0
    /\ inp[2].kind = "rel" /\ inp[2].ty = Ty(FALSE, 8) /\ inp[2].layout = "raw_first"
    /\ inp[2].out = 1
    /\ buf[0] = 100 /\ buf[1] = 199 /\ Load(buf, 3, MetaTy) = 259
    /\ last.p = 2 /\ last.op = "as_ptr" /\ last.val = base + 200 /\ last.shape = 259

====
